---- MODULE Spec2Model ----
(***************************************************************************)
(* Crop-decision and configuration-resolution engine of the avatar image   *)
(* processor: config.js (presets, getConfig, mergeConfig) and              *)
(* image-processor.js (loadModels, smartCropImage, colorCorrectForAvatars, *)
(* finalAdjustments, preprocessImageFromBuffer).                           *)
(*                                                                         *)
(* Number representation.  The configuration holds decimal fractions with  *)
(* at most two decimals.  Every multiplier, size factor, offset and        *)
(* threshold that the source writes as a fraction (1.2, 0.65, 0.03, ...)   *)
(* is held here in hundredths (120, 65, 3, ...); luminance thresholds,     *)
(* hue, quality, compressionLevel and size are whole numbers in the source *)
(* and are held as they are.  Math.floor(a * f) with f in hundredths is    *)
(* (a * f) \div 100, computed exactly; the rounding error of the source's  *)
(* double arithmetic (0.57 * 100 = 56.99999999999999) is not modelled.     *)
(*                                                                         *)
(* JavaScript objects are functions from property names to values; the     *)
(* object {} is the function with the empty domain.                        *)
(***************************************************************************)
EXTENDS Integers, Sequences, FiniteSets, TLC

VARIABLES
    pc,                   \* position of the request in preprocessImageFromBuffer
    preset,               \* the preset argument of the request
    customSettings,       \* the customSettings argument of the request
    config,               \* const config = mergeConfig(preset, customSettings)
    error,                \* the error the request threw, "none" if none
    metadata,             \* image.metadata(): width and height
    detections,           \* what faceapi.detectAllFaces returns for the image
    modelsLoaded,         \* module flag of image-processor.js
    tensorflowInitialized, \* module flag of image-processor.js
    faceCenter,           \* smartCropImage's faceCenter (NoFace for null)
    nominal,              \* smartCropImage's cropWidth, cropHeight, left, top before the clamp
    crop,                 \* the region smartCropImage hands to image.extract
    avgLuminance,         \* stats mean of the cropped image
    brightnessAdjustment, \* brightness handed to image.modulate
    stages,               \* the stage events of the request, in the order they happened
    thrown,               \* the errors the request's caller has received
    result,               \* what preprocessImageFromBuffer returned, NoResult if nothing
    detection,            \* how face detection ended inside smartCropImage
    requests,             \* number of requests the process has started
    loading,              \* position of each concurrent caller inside loadModels
    loadStarts,           \* how often tf.setBackend and loadFromDisk were started
    variant,              \* which image-processor module the process has loaded
    presetsTable,         \* config.js: the presets object the module holds
    argv,                 \* quick-adjust.js: process.argv.slice(2)
    options,              \* quick-adjust.js: what parseArgs returned as options
    verdict,              \* the tight-crop verdicts of the detected boxes
    appModelsLoaded,      \* app.js: its own modelsLoaded flag
    modelLoadingPromise,  \* app.js: null, or the state of the promise it keeps
    response              \* the answer of the last HTTP handler that ran

vars == <<pc, preset, customSettings, config, error, metadata, detections,
          modelsLoaded, tensorflowInitialized, faceCenter, nominal, crop, avgLuminance,
          brightnessAdjustment, stages, thrown, result, detection, requests,
          loading, loadStarts, variant, presetsTable, argv, options, verdict,
          appModelsLoaded, modelLoadingPromise, response>>

\* the state of the command line and of the HTTP services, which the steps of
\* a request inside image-processor.js leave alone
cliVars == <<argv, options>>
serviceVars == <<appModelsLoaded, modelLoadingPromise, response>>

-----------------------------------------------------------------------------
(* Bounds of the model *)

\* largest width and height of the exhaustively enumerated images
MaxDim == 5
\* largest number of leaf fields one override group names
MaxOverrideFields == 2
\* largest number of requests one process serves one after another
MaxRequests == 2
\* largest number of requests that are inside loadModels at the same time
MaxCallers == 3

-----------------------------------------------------------------------------
(* JavaScript object helpers *)

\* {}
EmptyObject == <<>>

\* { ...a, ...b }: b's properties win
Spread(a, b) ==
    [k \in (DOMAIN a) \cup (DOMAIN b) |-> IF k \in DOMAIN b THEN b[k] ELSE a[k]]

\* ...o.k inside an object literal: spreading undefined adds nothing
Prop(o, k) == IF k \in DOMAIN o THEN o[k] ELSE EmptyObject

Min(a, b) == IF a < b THEN a ELSE b
Max(a, b) == IF a > b THEN a ELSE b

-----------------------------------------------------------------------------
(* config.js *)

processingConfig ==
    [ brightness |->
        [ base |-> 120, darkImages |-> 116, mediumDarkImages |-> 112,
          brightImages |-> 105, darkThreshold |-> 100, mediumThreshold |-> 140,
          brightThreshold |-> 180, final |-> 101 ],
      color |-> [ saturation |-> 85, finalSaturation |-> 104, hue |-> -8 ],
      contrast |-> [ gamma |-> 100, linearMultiplier |-> 107, linearOffset |-> 150 ],
      sharpening |-> [ sigma |-> 90, flat |-> 100, jagged |-> 200 ],
      cropping |->
        [ faceDetectedSize |-> 65, fallbackSize |-> 80,
          tightCropDetection |->
            [ enabled |-> TRUE, faceToImageRatioThreshold |-> 3,
              faceEdgeDistanceThreshold |-> 20, looseCropSize |-> 95,
              skipCropSize |-> 100 ],
          faceVerticalOffset |-> 10, landscapeThreshold |-> 120,
          fallbackLandscapeTop |-> 25, fallbackPortraitTop |-> 20 ],
      output |-> [ quality |-> 95, compressionLevel |-> 6, size |-> 1024 ] ]

presets ==
    [ default |-> processingConfig,
      brighten |->
        Spread(processingConfig,
          [ brightness |-> Spread(processingConfig.brightness,
                [ base |-> 120, darkImages |-> 125, mediumDarkImages |-> 118,
                  final |-> 105 ]),
            contrast |-> Spread(processingConfig.contrast,
                [ gamma |-> 125, linearMultiplier |-> 115 ]) ]),
      subtle |->
        Spread(processingConfig,
          [ brightness |-> Spread(processingConfig.brightness,
                [ base |-> 105, darkImages |-> 108, mediumDarkImages |-> 106,
                  final |-> 100 ]),
            color |-> Spread(processingConfig.color,
                [ saturation |-> 105, finalSaturation |-> 102 ]) ]),
      vibrant |->
        Spread(processingConfig,
          [ brightness |-> Spread(processingConfig.brightness, [ base |-> 115 ]),
            color |-> Spread(processingConfig.color,
                [ saturation |-> 120, finalSaturation |-> 108 ]),
            contrast |-> Spread(processingConfig.contrast,
                [ gamma |-> 130, linearMultiplier |-> 112 ]),
            sharpening |-> Spread(processingConfig.sharpening,
                [ sigma |-> 150, jagged |-> 250 ]) ]),
      natural |->
        Spread(processingConfig,
          [ brightness |-> Spread(processingConfig.brightness,
                [ base |-> 108, final |-> 100 ]),
            color |-> Spread(processingConfig.color,
                [ saturation |-> 108, finalSaturation |-> 102 ]),
            contrast |-> Spread(processingConfig.contrast,
                [ gamma |-> 110, linearMultiplier |-> 105 ]),
            sharpening |-> Spread(processingConfig.sharpening,
                [ sigma |-> 80, jagged |-> 150 ]) ]) ]

\* Object.keys(presets)
PresetNames == DOMAIN presets

\* The preset argument left out of the call (undefined).
Absent == "<absent>"

\* presets is an object literal, so presets[name] also finds the properties it
\* inherits from Object.prototype; these are functions, truthy, and carry none of
\* the configuration groups.
ObjectPrototypeNames == {"constructor", "toString", "hasOwnProperty", "valueOf"}

\* basePreset = 'default' (default parameter)
PresetArg(basePreset) == IF basePreset = Absent THEN "default" ELSE basePreset

\* mutant: the || fallback is taken for every name
BaseAlwaysDefault(basePreset) == presets["default"]

\* presets[basePreset] || presets.default
Base(basePreset) ==
    LET name == PresetArg(basePreset)
    IN  IF name \in DOMAIN presetsTable THEN presetsTable[name]
        ELSE IF name \in ObjectPrototypeNames THEN EmptyObject
        ELSE presetsTable["default"]

\* getConfig
getConfig(presetName) == Base(presetName)

\* mutant: a group named by the override replaces the preset's group
MergeGroupReplace(base, custom, g) ==
    IF g \in DOMAIN custom THEN custom[g] ELSE Prop(base, g)

\* g: { ...base.g, ...customSettings.g }
MergeGroup(base, custom, g) == Spread(Prop(base, g), Prop(custom, g))

\* mutant: tightCropDetection is merged like every other cropping field
MergeCroppingShallow(base, custom) ==
    Spread(Prop(base, "cropping"), Prop(custom, "cropping"))

\* cropping: { ...base.cropping, ...customSettings.cropping,
\*             tightCropDetection: { ...base.cropping.tightCropDetection,
\*                                   ...customSettings.cropping?.tightCropDetection } }
MergeCropping(base, custom) ==
    Spread(Spread(Prop(base, "cropping"), Prop(custom, "cropping")),
           [ tightCropDetection |->
               Spread(base.cropping.tightCropDetection,
                      Prop(Prop(custom, "cropping"), "tightCropDetection")) ])

\* base.cropping.tightCropDetection reads a property of undefined when the base
\* has no cropping group: mergeConfig throws a TypeError.
mergeConfigThrows(basePreset, custom) == "cropping" \notin DOMAIN Base(basePreset)

\* mutant: only the six groups are returned
mergeConfigDropsUnknown(basePreset, custom) ==
    LET base == Base(basePreset)
    IN  [ brightness |-> MergeGroup(base, custom, "brightness"),
          color      |-> MergeGroup(base, custom, "color"),
          contrast   |-> MergeGroup(base, custom, "contrast"),
          sharpening |-> MergeGroup(base, custom, "sharpening"),
          cropping   |-> MergeCropping(base, custom),
          output     |-> MergeGroup(base, custom, "output") ]

\* the stored preset a resolution starts from
StoredName(basePreset) ==
    IF PresetArg(basePreset) \in DOMAIN presetsTable THEN PresetArg(basePreset)
    ELSE "default"

\* mutant: the override's groups are assigned into the stored preset
presetsAfterAssign(basePreset, custom) ==
    IF "cropping" \notin DOMAIN Base(basePreset) THEN presetsTable
    ELSE [ presetsTable EXCEPT ![StoredName(basePreset)] =
             Spread(Base(basePreset),
                    [ g \in (DOMAIN custom) \cap (DOMAIN Base(basePreset)) |->
                        Spread(Base(basePreset)[g], custom[g]) ]) ]

\* the presets object after mergeConfig has run: mergeConfig only reads base
\* and writes into the object literals it creates, so presets keeps every
\* property it had
presetsAfterMerge(basePreset, custom) == presetsTable

\* mergeConfig, when it does not throw
mergeConfig(basePreset, custom) ==
    LET base == Base(basePreset)
    IN  Spread(Spread(base, custom),
               [ brightness |-> MergeGroup(base, custom, "brightness"),
                 color      |-> MergeGroup(base, custom, "color"),
                 contrast   |-> MergeGroup(base, custom, "contrast"),
                 sharpening |-> MergeGroup(base, custom, "sharpening"),
                 cropping   |-> MergeCropping(base, custom),
                 output     |-> MergeGroup(base, custom, "output") ])

-----------------------------------------------------------------------------
(* Inputs of the configuration resolver *)

Groups == {"brightness", "color", "contrast", "sharpening", "cropping", "output"}
TightFields == DOMAIN processingConfig.cropping.tightCropDetection
CroppingNumberFields == (DOMAIN processingConfig.cropping) \ {"tightCropDetection"}

\* a value no preset holds in any field
OverrideValues == {98}

\* preset names a caller can pass: the published ones, an unknown one, a name
\* Object.prototype defines, and none at all
RequestedPresets == PresetNames \cup {"sepia", "constructor", Absent}

\* objects naming at most n of the fields, each with an override value
NumberOverrides(fields, n) ==
    UNION { [S -> OverrideValues] : S \in { T \in SUBSET fields : Cardinality(T) <= n } }

\* overrides of cropping.tightCropDetection naming at most n fields
TightOverrides(n) ==
    { t \in { Spread(o, e) :
                o \in NumberOverrides(TightFields \ {"enabled"}, n),
                e \in {EmptyObject, [enabled |-> FALSE], [enabled |-> TRUE]} } :
      Cardinality(DOMAIN t) <= n }

\* number of leaf fields a cropping override names
CroppingLeaves(c) ==
    Cardinality((DOMAIN c) \ {"tightCropDetection"})
    + IF "tightCropDetection" \in DOMAIN c
      THEN Cardinality(DOMAIN c.tightCropDetection) ELSE 0

\* overrides of cropping naming at most n leaf fields
CroppingOverrides(n) ==
    { c \in NumberOverrides(CroppingNumberFields, n) \cup
            { Spread(o, [tightCropDetection |-> t]) :
                o \in NumberOverrides(CroppingNumberFields, n),
                t \in TightOverrides(n) } :
      CroppingLeaves(c) <= n }

\* overrides of one group naming at most n leaf fields
GroupOverrides(g, n) ==
    IF g = "cropping" THEN CroppingOverrides(n)
    ELSE NumberOverrides(DOMAIN processingConfig[g], n)

\* customSettings naming one group
OneGroupSettings(n) ==
    UNION { { [x \in {g} |-> o] : o \in GroupOverrides(g, n) } : g \in Groups }

\* a top-level property that is none of the groups
UnknownSettings == { [watermark |-> v] : v \in OverrideValues }

\* the customSettings the resolver is exercised with: none, one group, two
\* groups, and a property outside the groups alone or next to a group
ResolverSettings ==
    {EmptyObject}
    \cup OneGroupSettings(MaxOverrideFields)
    \cup { Spread(a, b) : a \in OneGroupSettings(MaxOverrideFields - 1),
                          b \in OneGroupSettings(MaxOverrideFields - 1) }
    \cup UnknownSettings
    \cup { Spread(a, u) : a \in OneGroupSettings(1), u \in UnknownSettings }

-----------------------------------------------------------------------------
(* State of one request *)

NoConfig == EmptyObject
NoFace == [present |-> FALSE, x2 |-> 0, y2 |-> 0]
NoNominal == [branch |-> "none", cropWidth |-> 0, cropHeight |-> 0, left |-> 0, top |-> 0]
NoCrop == [left |-> 0, top |-> 0, width |-> 0, height |-> 0]
NoResult == "none"

\* one entry of the stage log: a stage was entered, returned its buffer, or threw
Event(stage, what) == [stage |-> stage, event |-> what]

\* the TypeError of base.cropping.tightCropDetection when base has no cropping
ConfigTypeError ==
    [ name |-> "TypeError",
      message |-> "Cannot read properties of undefined (reading 'tightCropDetection')" ]

\* what a rejected sharp call throws: an Error with the library's message.  The
\* same failures (an undecodable buffer, an invalid parameter) can come out of
\* the sharp chain of every stage.
SharpErrors ==
    { [name |-> "Error", message |-> "Input buffer contains unsupported image format"],
      [name |-> "Error", message |-> "Expected valid parameter"] }

\* the callers of loadModels that can be inside it at the same time
Callers == 1..MaxCallers

\* no caller is inside loadModels
NoLoading == [c \in Callers |-> "outside"]

\* the process with nothing started
NoLoadStarts == [setBackend |-> 0, loadFromDisk |-> 0]

\* the image-processor modules a process can have loaded
RootVariant == "image-processor.js"
FunctionsVariant == "functions/image-processor.js"

\* no handler has answered
NoResponse == EmptyObject

\* what lies outside image-processor.js when only its requests are looked at:
\* the root module is loaded, config.js holds its presets, no command line,
\* no HTTP service
InitDeployment ==
    /\ variant = RootVariant
    /\ presetsTable = presets
    /\ argv = <<>>
    /\ options = EmptyObject
    /\ verdict = <<>>
    /\ appModelsLoaded = FALSE
    /\ modelLoadingPromise = "null"
    /\ response = NoResponse

\* preprocessImageFromBuffer, first statement: const config = mergeConfig(...).
\* A throw leaves the try block: the catch rethrows and no stage runs.
ResolveConfig ==
    /\ pc = "start"
    /\ IF mergeConfigThrows(preset, customSettings)
       THEN /\ pc' = "failed"
            /\ error' = "TypeError"
            /\ config' = NoConfig
            /\ stages' = Append(stages, Event("mergeConfig", "threw"))
            /\ thrown' = Append(thrown, ConfigTypeError)
       ELSE /\ pc' = "resolved"
            /\ error' = error
            /\ config' = mergeConfig(preset, customSettings)
            /\ stages' = Append(stages, Event("mergeConfig", "done"))
            /\ thrown' = thrown
    /\ UNCHANGED <<preset, customSettings, metadata, detections, modelsLoaded,
                   tensorflowInitialized, faceCenter, nominal, crop, avgLuminance,
                   brightnessAdjustment, result, detection, requests, loading,
                   loadStarts>>
    /\ presetsTable' = presetsAfterMerge(preset, customSettings)
    /\ UNCHANGED <<variant, verdict, cliVars, serviceVars>>

InitConfig ==
    /\ InitDeployment
    /\ pc = "start"
    /\ preset \in RequestedPresets
    /\ customSettings \in ResolverSettings
    /\ config = NoConfig
    /\ error = "none"
    /\ metadata = [width |-> 1, height |-> 1]
    /\ detections = <<>>
    /\ modelsLoaded = FALSE
    /\ tensorflowInitialized = FALSE
    /\ faceCenter = NoFace
    /\ nominal = NoNominal
    /\ crop = NoCrop
    /\ avgLuminance = 0
    /\ brightnessAdjustment = 0
    /\ stages = <<>>
    /\ thrown = <<>>
    /\ result = NoResult
    /\ detection = "none"
    /\ requests = 1
    /\ loading = NoLoading
    /\ loadStarts = NoLoadStarts

NextConfig == ResolveConfig

SpecConfig == InitConfig /\ [][NextConfig]_vars

-----------------------------------------------------------------------------
(* image-processor.js: loadModels and smartCropImage *)

\* mutant: loadFromDisk is tried once per process; after a failed load later
\* requests return at once
LoadModelsNoRetry ==
    /\ pc = "resolved"
    /\ pc' = "loaded"
    /\ stages' = Append(stages, Event("smartCropImage", "start"))
    /\ IF modelsLoaded \/ loadStarts.loadFromDisk > 0
       THEN UNCHANGED <<modelsLoaded, tensorflowInitialized, loadStarts>>
       ELSE \E tfOk \in BOOLEAN, diskOk \in BOOLEAN :
              /\ tensorflowInitialized' = (tensorflowInitialized \/ tfOk)
              /\ modelsLoaded' = diskOk
              /\ loadStarts' =
                   [ setBackend   |-> loadStarts.setBackend
                                        + IF tensorflowInitialized THEN 0 ELSE 1,
                     loadFromDisk |-> loadStarts.loadFromDisk + 1 ]
    /\ UNCHANGED <<preset, customSettings, config, error, metadata, detections,
                   faceCenter, nominal, crop, avgLuminance, brightnessAdjustment,
                   thrown, result, detection, requests, loading>>
    /\ UNCHANGED <<variant, presetsTable, verdict, cliVars, serviceVars>>

\* loadModels: returns at once when the models are loaded; otherwise
\* initializeTensorFlow (which keeps its own flag and swallows its error) and
\* then loadFromDisk, whose error is swallowed and leaves modelsLoaded false.
LoadModels ==
    /\ pc = "resolved"
    /\ pc' = "loaded"
    /\ stages' = Append(stages, Event("smartCropImage", "start"))
    /\ IF modelsLoaded
       THEN UNCHANGED <<modelsLoaded, tensorflowInitialized, loadStarts>>
       ELSE \E tfOk \in BOOLEAN, diskOk \in BOOLEAN :
              /\ tensorflowInitialized' = (tensorflowInitialized \/ tfOk)
              /\ modelsLoaded' = diskOk
              /\ loadStarts' =
                   [ setBackend   |-> loadStarts.setBackend
                                        + IF tensorflowInitialized THEN 0 ELSE 1,
                     loadFromDisk |-> loadStarts.loadFromDisk + 1 ]
    /\ UNCHANGED <<preset, customSettings, config, error, metadata, detections,
                   faceCenter, nominal, crop, avgLuminance, brightnessAdjustment,
                   thrown, result, detection, requests, loading>>
    /\ UNCHANGED <<variant, presetsTable, verdict, cliVars, serviceVars>>

\* box.area
BoxArea(box) == box.width * box.height

\* mutant: of two boxes of equal area the earlier one is kept
LargerKeepsFirst(prev, current) ==
    IF BoxArea(prev) >= BoxArea(current) THEN prev ELSE current

\* (prev, current) => (prev.box.area > current.box.area) ? prev : current
Larger(prev, current) == IF BoxArea(prev) > BoxArea(current) THEN prev ELSE current

RECURSIVE ReduceFrom(_, _, _)
ReduceFrom(dets, i, prev) ==
    IF i > Len(dets) THEN prev ELSE ReduceFrom(dets, i + 1, Larger(prev, dets[i]))

\* detections.reduce(...) without an initial value
largestFace(dets) == ReduceFrom(dets, 2, dets[1])

\* faceCenter = { x: box.x + box.width / 2, y: box.y + box.height / 2 },
\* held doubled (x2 = 2 * x) so that half pixels stay whole numbers
FaceCenterOf(box) ==
    [present |-> TRUE, x2 |-> 2 * box.x + box.width, y2 |-> 2 * box.y + box.height]

\* smartCropImage, face detection: skipped when the models are not loaded; a
\* throw inside the try block is caught and leaves faceCenter null
DetectFaces ==
    /\ pc = "loaded"
    /\ pc' = "detected"
    /\ IF modelsLoaded
       THEN \E throws \in BOOLEAN :
              /\ faceCenter' = IF ~throws /\ Len(detections) > 0
                               THEN FaceCenterOf(largestFace(detections))
                               ELSE NoFace
              /\ detection' = IF throws THEN "threw"
                              ELSE IF Len(detections) > 0 THEN "face" ELSE "noFaces"
       ELSE /\ faceCenter' = NoFace
            /\ detection' = "notLoaded"
    /\ UNCHANGED <<preset, customSettings, config, error, metadata, detections,
                   modelsLoaded, tensorflowInitialized, nominal, crop,
                   avgLuminance, brightnessAdjustment, stages, thrown, result,
                   requests, loading, loadStarts>>
    /\ UNCHANGED <<variant, presetsTable, verdict, cliVars, serviceVars>>

\* Math.floor(Math.min(width, height) * factor)
SquareSide(width, height, factor) == (Min(width, height) * factor) \div 100

\* mutant: the face branch is taken whether or not a face was found
SizeBranchAlwaysFace(fc) == "faceDetectedSize"

\* if (faceCenter) ... faceDetectedSize ... else ... fallbackSize
SizeBranch(fc) == IF fc.present THEN "faceDetectedSize" ELSE "fallbackSize"

\* mutant: the vertical offset is not applied
FaceTopNoOffset(fc, cropHeight, offset) == (fc.y2 - cropHeight) \div 2

\* left = Math.floor(faceCenter.x - cropWidth / 2)
FaceLeft(fc, cropWidth) == (fc.x2 - cropWidth) \div 2

\* top = Math.floor(faceCenter.y - cropHeight / 2);
\* top = Math.floor(top + cropHeight * config.cropping.faceVerticalOffset)
FaceTop(fc, cropHeight, offset) ==
    (100 * ((fc.y2 - cropHeight) \div 2) + cropHeight * offset) \div 100

\* mutant: an aspect ratio equal to the threshold counts as landscape
IsLandscapeInclusive(width, height, threshold) == 100 * width >= threshold * height

\* aspectRatio > config.cropping.landscapeThreshold, aspectRatio = width / height
IsLandscape(width, height, threshold) == 100 * width > threshold * height

\* left = Math.floor((width - cropWidth) / 2)
FallbackLeft(width, cropWidth) == (width - cropWidth) \div 2

\* top = Math.floor(height * fallbackLandscapeTop) or ... fallbackPortraitTop
FallbackTop(width, height, cropping) ==
    IF IsLandscape(width, height, cropping.landscapeThreshold)
    THEN (height * cropping.fallbackLandscapeTop) \div 100
    ELSE (height * cropping.fallbackPortraitTop) \div 100

\* mutant: the lower bound 0 is not enforced
ClampNoZero(start, limit, size) == Min(start, limit - size)

\* mutant: the start is kept inside the image, the crop is not shifted back
ClampKeepsStart(start, limit, size) == Max(0, Min(start, limit - 1))

\* Math.max(0, Math.min(left, width - cropWidth))
Clamp(start, limit, size) == Max(0, Min(start, limit - size))

\* Math.min(cropWidth, width - left)
ActualSize(size, limit, start) == Min(size, limit - start)

\* smartCropImage's cropWidth, cropHeight, left and top before the clamp
NominalCrop(fc, meta, cropping) ==
    LET branch == SizeBranch(fc)
        side   == SquareSide(meta.width, meta.height, cropping[branch])
    IN  [ branch     |-> branch,
          cropWidth  |-> side,
          cropHeight |-> side,
          left |-> IF fc.present THEN FaceLeft(fc, side)
                   ELSE FallbackLeft(meta.width, side),
          top  |-> IF fc.present THEN FaceTop(fc, side, cropping.faceVerticalOffset)
                   ELSE FallbackTop(meta.width, meta.height, cropping) ]

\* the region handed to image.extract
ExtractRegion(nom, meta) ==
    LET left == Clamp(nom.left, meta.width, nom.cropWidth)
        top  == Clamp(nom.top, meta.height, nom.cropHeight)
    IN  [ left   |-> left,
          top    |-> top,
          width  |-> ActualSize(nom.cropWidth, meta.width, left),
          height |-> ActualSize(nom.cropHeight, meta.height, top) ]

\* mutant: the buffer of the crop stage goes straight to finalAdjustments
StageReturnsSkipsColor(log, stage, next) ==
    /\ pc' = (IF next = "cropped" THEN "colorCorrected" ELSE next)
    /\ error' = error
    /\ stages' = Append(log, Event(stage, "done"))
    /\ thrown' = thrown

\* a stage's sharp chain resolved with a buffer: the request moves on to the
\* next statement of preprocessImageFromBuffer (log is the stage log so far)
StageReturns(log, stage, next) ==
    /\ pc' = next
    /\ error' = error
    /\ stages' = Append(log, Event(stage, "done"))
    /\ thrown' = thrown

\* mutant: the error of a stage is swallowed and the request goes on
StageThrowsAndGoesOn(log, stage) ==
    /\ pc' = (IF stage = "smartCropImage" THEN "cropped" ELSE "colorCorrected")
    /\ error' = error
    /\ stages' = Append(log, Event(stage, "threw"))
    /\ thrown' = thrown

\* a stage's sharp chain rejected: the await throws inside the try block of
\* preprocessImageFromBuffer, whose catch logs the error and throws it again
StageThrows(log, stage) ==
    \E e \in SharpErrors :
      /\ pc' = "failed"
      /\ error' = e.name
      /\ stages' = Append(log, Event(stage, "threw"))
      /\ thrown' = Append(thrown, e)

\* smartCropImage, crop parameters and extraction
PlanCrop ==
    /\ pc = "detected"
    /\ nominal' = NominalCrop(faceCenter, metadata, config.cropping)
    /\ crop' = ExtractRegion(nominal', metadata)
    /\ \E ok \in BOOLEAN :
         IF ok THEN StageReturns(stages, "smartCropImage", "cropped")
               ELSE StageThrows(stages, "smartCropImage")
    /\ UNCHANGED <<preset, customSettings, config, metadata, detections,
                   modelsLoaded, tensorflowInitialized, faceCenter,
                   avgLuminance, brightnessAdjustment, result, detection,
                   requests, loading, loadStarts>>
    /\ UNCHANGED <<variant, presetsTable, verdict, cliVars, serviceVars>>

-----------------------------------------------------------------------------
(* Inputs of the crop planner *)

\* largest width and height of the images whose detection lists hold two boxes
MaxPairDim == 2

\* face boxes with whole-pixel corners inside a width x height image
Boxes(width, height) ==
    { b \in [ x : 0..(width - 1), y : 0..(height - 1),
              width : 1..width, height : 1..height ] :
        b.x + b.width <= width /\ b.y + b.height <= height }

\* what the detector can return for a width x height image: nothing, one box,
\* (for the smallest images) two boxes in either order, or (for the smallest
\* images one pixel high) three boxes in every order
DetectionLists(width, height) ==
    {<<>>}
    \cup { <<b>> : b \in Boxes(width, height) }
    \cup ( IF width <= MaxPairDim /\ height <= MaxPairDim
           THEN { <<a, b>> : a \in Boxes(width, height), b \in Boxes(width, height) }
           ELSE {} )
    \cup ( IF width <= MaxPairDim /\ height = 1
           THEN { <<a, b, c>> : a \in Boxes(width, height), b \in Boxes(width, height),
                                c \in Boxes(width, height) }
           ELSE {} )

Image(width, height, dets) ==
    [ metadata |-> [width |-> width, height |-> height], detections |-> dets ]

\* the images of the scenarios: a small face far from the edges and a large
\* face on 1000x1000, landscape and portrait without a face, and 1200x1000
\* and 6x5, whose aspect ratio equals the default landscapeThreshold
ScenarioImages ==
    { Image(1000, 1000, << [x |-> 400, y |-> 400, width |-> 60, height |-> 60] >>),
      Image(1000, 1000, << [x |-> 187, y |-> 513, width |-> 327, height |-> 293] >>),
      Image(1600, 900, <<>>),
      Image(900, 1600, <<>>),
      Image(1200, 1000, <<>>),
      Image(6, 5, <<>>) }

Images ==
    ScenarioImages
    \cup UNION { { Image(w, h, d) : d \in DetectionLists(w, h) } :
                 w \in 1..MaxDim, h \in 1..MaxDim }

\* the requests the planner is exercised with: the default preset alone and
\* with overrides of the cropping group (full-size, oversize and small crops,
\* offsets in both directions, another landscape threshold, tight-crop
\* detection disabled and retuned), one other preset, and a preset name that
\* makes mergeConfig throw
PlannerSettings ==
    { EmptyObject,
      [cropping |-> [faceDetectedSize |-> 100]],
      [cropping |-> [faceDetectedSize |-> 130, fallbackSize |-> 130]],
      [cropping |-> [faceDetectedSize |-> 30, fallbackSize |-> 50,
                     faceVerticalOffset |-> 50]],
      [cropping |-> [faceVerticalOffset |-> -40]],
      [cropping |-> [landscapeThreshold |-> 150, fallbackLandscapeTop |-> 60]],
      [cropping |-> [tightCropDetection |-> [enabled |-> FALSE]]],
      [cropping |-> [tightCropDetection |->
          [ looseCropSize |-> 98, faceToImageRatioThreshold |-> 30,
            faceEdgeDistanceThreshold |-> 10 ]]] }

PlannerRequests ==
    { [preset |-> "default", customSettings |-> c] : c \in PlannerSettings }
    \cup { [preset |-> "vibrant", customSettings |-> EmptyObject],
           [preset |-> "constructor", customSettings |-> EmptyObject] }

InitCrop ==
    /\ InitDeployment
    /\ pc = "start"
    /\ \E r \in PlannerRequests :
         preset = r.preset /\ customSettings = r.customSettings
    /\ \E img \in Images :
         metadata = img.metadata /\ detections = img.detections
    /\ config = NoConfig
    /\ error = "none"
    /\ modelsLoaded = FALSE
    /\ tensorflowInitialized = FALSE
    /\ faceCenter = NoFace
    /\ nominal = NoNominal
    /\ crop = NoCrop
    /\ avgLuminance = 0
    /\ brightnessAdjustment = 0
    /\ stages = <<>>
    /\ thrown = <<>>
    /\ result = NoResult
    /\ detection = "none"
    /\ requests = 1
    /\ loading = NoLoading
    /\ loadStarts = NoLoadStarts

NextCrop == ResolveConfig \/ LoadModels \/ DetectFaces \/ PlanCrop

SpecCrop == InitCrop /\ [][NextCrop]_vars

-----------------------------------------------------------------------------
(* image-processor.js: colorCorrectForAvatars *)

\* mutant: a luminance equal to darkThreshold counts as dark
BrightnessAdjustmentInclusive(avg, brightness) ==
    IF avg <= brightness.darkThreshold THEN brightness.darkImages
    ELSE IF avg < brightness.mediumThreshold THEN brightness.mediumDarkImages
    ELSE IF avg > brightness.brightThreshold THEN brightness.brightImages
    ELSE brightness.base

\* mutant: the bright check comes first
BrightnessAdjustmentBrightFirst(avg, brightness) ==
    IF avg > brightness.brightThreshold THEN brightness.brightImages
    ELSE IF avg < brightness.darkThreshold THEN brightness.darkImages
    ELSE IF avg < brightness.mediumThreshold THEN brightness.mediumDarkImages
    ELSE brightness.base

\* let brightnessAdjustment = config.brightness.base; if ... else if ... else if ...
BrightnessAdjustment(avg, brightness) ==
    IF avg < brightness.darkThreshold THEN brightness.darkImages
    ELSE IF avg < brightness.mediumThreshold THEN brightness.mediumDarkImages
    ELSE IF avg > brightness.brightThreshold THEN brightness.brightImages
    ELSE brightness.base

\* largest luminance and threshold of the exhaustively enumerated ones
MaxLuminance == 4

\* average luminances of the cropped image: the low end in full, and the
\* values around the default thresholds 100, 140 and 180
Luminances ==
    0..(MaxLuminance + 1) \cup {99, 100, 101, 139, 140, 141, 179, 180, 181, 255}

\* colorCorrectForAvatars: the brightness handed to modulate, and the sharp
\* chain that resolves with the corrected buffer or rejects
ColorCorrect ==
    /\ pc = "cropped"
    /\ variant = RootVariant
    /\ \E lum \in Luminances :
         /\ avgLuminance' = lum
         /\ brightnessAdjustment' = BrightnessAdjustment(lum, config.brightness)
    /\ \E ok \in BOOLEAN :
         LET entered == Append(stages, Event("colorCorrectForAvatars", "start"))
         IN  IF ok THEN StageReturns(entered, "colorCorrectForAvatars", "colorCorrected")
                   ELSE StageThrows(entered, "colorCorrectForAvatars")
    /\ UNCHANGED <<preset, customSettings, config, metadata, detections,
                   modelsLoaded, tensorflowInitialized, faceCenter, nominal, crop,
                   result, detection, requests, loading, loadStarts>>
    /\ UNCHANGED <<variant, presetsTable, verdict, cliVars, serviceVars>>

\* overrides of the three luminance thresholds, in every order
BrightnessSettings ==
    {EmptyObject}
    \cup { [brightness |-> [darkThreshold |-> d, mediumThreshold |-> m,
                            brightThreshold |-> b]] :
           d \in 0..MaxLuminance, m \in 0..MaxLuminance, b \in 0..MaxLuminance }

\* a request whose crop stage has finished on a faceless 1600x900 image
InitBrightness ==
    /\ InitDeployment
    /\ pc = "cropped"
    /\ preset \in {"default", "brighten", "subtle"}
    /\ customSettings \in BrightnessSettings
    /\ config = mergeConfig(preset, customSettings)
    /\ error = "none"
    /\ metadata = [width |-> 1600, height |-> 900]
    /\ detections = <<>>
    /\ modelsLoaded = FALSE
    /\ tensorflowInitialized = FALSE
    /\ faceCenter = NoFace
    /\ nominal = NominalCrop(NoFace, metadata, config.cropping)
    /\ crop = ExtractRegion(nominal, metadata)
    /\ avgLuminance = 0
    /\ brightnessAdjustment = 0
    /\ stages = << Event("mergeConfig", "done"), Event("smartCropImage", "start"),
                   Event("smartCropImage", "done") >>
    /\ thrown = <<>>
    /\ result = NoResult
    /\ detection = "notLoaded"
    /\ requests = 1
    /\ loading = NoLoading
    /\ loadStarts = [setBackend |-> 1, loadFromDisk |-> 1]

NextBrightness == ColorCorrect

SpecBrightness == InitBrightness /\ [][NextBrightness]_vars

-----------------------------------------------------------------------------
(* functions/image-processor.js: colorCorrectForAvatars of the two modules
   deployed as functions (tfjs-node and WASM), which is the same in both *)

Variants == {RootVariant, FunctionsVariant}

\* colorCorrectForAvatars of functions/image-processor.js: no stats call, the
\* brightness handed to modulate is config.brightness.base.  avgLuminance is
\* the average luminance the cropped image has; this module does not measure it.
ColorCorrectFunctions ==
    /\ pc = "cropped"
    /\ variant = FunctionsVariant
    /\ \E lum \in Luminances : avgLuminance' = lum
    /\ brightnessAdjustment' = config.brightness.base
    /\ \E ok \in BOOLEAN :
         LET entered == Append(stages, Event("colorCorrectForAvatars", "start"))
         IN  IF ok THEN StageReturns(entered, "colorCorrectForAvatars", "colorCorrected")
                   ELSE StageThrows(entered, "colorCorrectForAvatars")
    /\ UNCHANGED <<preset, customSettings, config, metadata, detections,
                   modelsLoaded, tensorflowInitialized, faceCenter, nominal, crop,
                   result, detection, requests, loading, loadStarts>>
    /\ UNCHANGED <<variant, presetsTable, verdict, cliVars, serviceVars>>

\* a request whose crop stage has finished on a faceless 1600x900 image, in a
\* process that has loaded one module or the other
InitVariants ==
    /\ variant \in Variants
    /\ presetsTable = presets
    /\ argv = <<>>
    /\ options = EmptyObject
    /\ verdict = <<>>
    /\ appModelsLoaded = FALSE
    /\ modelLoadingPromise = "null"
    /\ response = NoResponse
    /\ pc = "cropped"
    /\ preset \in {"default", "brighten", "subtle"}
    /\ customSettings \in BrightnessSettings
    /\ config = mergeConfig(preset, customSettings)
    /\ error = "none"
    /\ metadata = [width |-> 1600, height |-> 900]
    /\ detections = <<>>
    /\ modelsLoaded = FALSE
    /\ tensorflowInitialized = FALSE
    /\ faceCenter = NoFace
    /\ nominal = NominalCrop(NoFace, metadata, config.cropping)
    /\ crop = ExtractRegion(nominal, metadata)
    /\ avgLuminance = 0
    /\ brightnessAdjustment = 0
    /\ stages = << Event("mergeConfig", "done"), Event("smartCropImage", "start"),
                   Event("smartCropImage", "done") >>
    /\ thrown = <<>>
    /\ result = NoResult
    /\ detection = "notLoaded"
    /\ requests = 1
    /\ loading = NoLoading
    /\ loadStarts = [setBackend |-> 1, loadFromDisk |-> 1]

NextVariants == ColorCorrect \/ ColorCorrectFunctions

SpecVariants == InitVariants /\ [][NextVariants]_vars

-----------------------------------------------------------------------------
(* The Face Geometry Analyzer.  No module under src/ computes a tight-crop
   verdict; the analyzer is modelled from its contract (faceRatio, the four
   edge distances of the face center, isTight), which TIGHT-CROP-DETECTION.md
   documents with the same thresholds.  Ratios are kept as fractions:
   faceRatio = area / (W * H), an edge distance = doubled pixels / (2 * side). *)

\* mutant: a face counts as tight when its ratio is below the threshold
isTightBelowRatio(box, meta, tight) ==
    LET w == meta.width
        h == meta.height
        cx2 == 2 * box.x + box.width
        cy2 == 2 * box.y + box.height
    IN  /\ tight.enabled
        /\ \/ 100 * BoxArea(box) < tight.faceToImageRatioThreshold * w * h
           \/ 100 * cx2 < tight.faceEdgeDistanceThreshold * 2 * w
           \/ 100 * (2 * w - cx2) < tight.faceEdgeDistanceThreshold * 2 * w
           \/ 100 * cy2 < tight.faceEdgeDistanceThreshold * 2 * h
           \/ 100 * (2 * h - cy2) < tight.faceEdgeDistanceThreshold * 2 * h

\* isTight = enabled AND (faceRatio > faceToImageRatioThreshold
\*                        OR minEdgeDistance < faceEdgeDistanceThreshold)
isTight(box, meta, tight) ==
    LET w == meta.width
        h == meta.height
        cx2 == 2 * box.x + box.width
        cy2 == 2 * box.y + box.height
    IN  /\ tight.enabled
        /\ \/ 100 * BoxArea(box) > tight.faceToImageRatioThreshold * w * h
           \/ 100 * cx2 < tight.faceEdgeDistanceThreshold * 2 * w
           \/ 100 * (2 * w - cx2) < tight.faceEdgeDistanceThreshold * 2 * w
           \/ 100 * cy2 < tight.faceEdgeDistanceThreshold * 2 * h
           \/ 100 * (2 * h - cy2) < tight.faceEdgeDistanceThreshold * 2 * h

\* analyze(faceBox, imageMetadata): the ratio, the four edge distances (as
\* doubled pixels from the left, right, top and bottom edge) and the verdict
analyze(box, meta, tight) ==
    LET cx2 == 2 * box.x + box.width
        cy2 == 2 * box.y + box.height
    IN  [ faceRatio |-> [num |-> BoxArea(box), den |-> meta.width * meta.height],
          left   |-> cx2,
          right  |-> 2 * meta.width - cx2,
          top    |-> cy2,
          bottom |-> 2 * meta.height - cy2,
          isTight |-> isTight(box, meta, tight) ]

\* the analyzer runs on every box of the request, with the resolved thresholds
AnalyzeFaces ==
    /\ pc = "resolved"
    /\ pc' = "analyzed"
    /\ verdict' = [ i \in 1..Len(detections) |->
                      analyze(detections[i], metadata,
                              config.cropping.tightCropDetection) ]
    /\ UNCHANGED <<preset, customSettings, config, error, metadata, detections,
                   modelsLoaded, tensorflowInitialized, faceCenter, nominal, crop,
                   avgLuminance, brightnessAdjustment, stages, thrown, result,
                   detection, requests, loading, loadStarts>>
    /\ UNCHANGED <<variant, presetsTable, argv, options, serviceVars>>

\* largest width and height of the images the analyzer is exercised with
MaxVerdictDim == 3

\* pairs of boxes of one image whose centers coincide: the edge distances of
\* the two are the same, the face ratios need not be
ConcentricPairs(width, height) ==
    { p \in Boxes(width, height) \X Boxes(width, height) :
        /\ 2 * p[1].x + p[1].width = 2 * p[2].x + p[2].width
        /\ 2 * p[1].y + p[1].height = 2 * p[2].y + p[2].height }

VerdictImages ==
    UNION { { Image(w, h, d) : d \in ConcentricPairs(w, h) } :
            w \in 1..MaxVerdictDim, h \in 1..MaxVerdictDim }

InitVerdict ==
    /\ variant = RootVariant
    /\ presetsTable = presets
    /\ argv = <<>>
    /\ options = EmptyObject
    /\ verdict = <<>>
    /\ appModelsLoaded = FALSE
    /\ modelLoadingPromise = "null"
    /\ response = NoResponse
    /\ pc = "start"
    /\ \E r \in PlannerRequests :
         preset = r.preset /\ customSettings = r.customSettings
    /\ \E img \in VerdictImages :
         metadata = img.metadata /\ detections = img.detections
    /\ config = NoConfig
    /\ error = "none"
    /\ modelsLoaded = FALSE
    /\ tensorflowInitialized = FALSE
    /\ faceCenter = NoFace
    /\ nominal = NoNominal
    /\ crop = NoCrop
    /\ avgLuminance = 0
    /\ brightnessAdjustment = 0
    /\ stages = <<>>
    /\ thrown = <<>>
    /\ result = NoResult
    /\ detection = "none"
    /\ requests = 1
    /\ loading = NoLoading
    /\ loadStarts = NoLoadStarts

NextVerdict == ResolveConfig \/ AnalyzeFaces

SpecVerdict == InitVerdict /\ [][NextVerdict]_vars

-----------------------------------------------------------------------------
(* image-processor.js: finalAdjustments and the whole of
   preprocessImageFromBuffer, one request after another in one process *)

\* finalAdjustments, and return finalBuffer
FinalAdjustments ==
    /\ pc = "colorCorrected"
    /\ \E ok \in BOOLEAN :
         LET entered == Append(stages, Event("finalAdjustments", "start"))
         IN  IF ok THEN /\ StageReturns(entered, "finalAdjustments", "done")
                        /\ result' = "png"
                   ELSE /\ StageThrows(entered, "finalAdjustments")
                        /\ result' = result
    /\ UNCHANGED <<preset, customSettings, config, metadata, detections,
                   modelsLoaded, tensorflowInitialized, faceCenter, nominal, crop,
                   avgLuminance, brightnessAdjustment, detection, requests,
                   loading, loadStarts>>
    /\ UNCHANGED <<variant, presetsTable, verdict, cliVars, serviceVars>>

\* the value undefined (or null) of a property, held as a number that no
\* configuration uses, so that it can stand where a number stands
Undefined == -999

\* the requests the pipeline is exercised with: the default preset alone, with
\* an override that sets sharpening.sigma to undefined and with an unknown
\* top-level field, and a preset name that makes mergeConfig throw
PipelineRequests ==
    { [preset |-> "default", customSettings |-> EmptyObject],
      [preset |-> "default", customSettings |-> [sharpening |-> [sigma |-> Undefined]]],
      [preset |-> "vibrant", customSettings |-> [watermark |-> 98]],
      [preset |-> "constructor", customSettings |-> EmptyObject] }

\* the images the pipeline is exercised with: 1x1, a small image with a face,
\* a landscape without a face, a large image with a face, and metadata that
\* reports a width or a height of 0
PipelineImages ==
    { Image(1, 1, <<>>),
      Image(3, 2, << [x |-> 0, y |-> 0, width |-> 2, height |-> 2] >>),
      Image(1600, 900, <<>>),
      Image(1000, 1000, << [x |-> 400, y |-> 400, width |-> 60, height |-> 60] >>),
      Image(0, 5, <<>>),
      Image(5, 0, <<>>) }

\* a caller (processImageFile, the POST /process handlers, exports.processImage)
\* calls preprocessImageFromBuffer: the locals of the call are fresh, the module
\* flags are what earlier requests left
StartRequest ==
    /\ pc \in {"idle", "done", "failed"}
    /\ requests < MaxRequests
    /\ requests' = requests + 1
    /\ pc' = "start"
    /\ \E r \in PipelineRequests :
         preset' = r.preset /\ customSettings' = r.customSettings
    /\ \E img \in PipelineImages :
         metadata' = img.metadata /\ detections' = img.detections
    /\ config' = NoConfig
    /\ error' = "none"
    /\ faceCenter' = NoFace
    /\ nominal' = NoNominal
    /\ crop' = NoCrop
    /\ avgLuminance' = 0
    /\ brightnessAdjustment' = 0
    /\ stages' = <<>>
    /\ thrown' = <<>>
    /\ result' = NoResult
    /\ detection' = "none"
    /\ UNCHANGED <<modelsLoaded, tensorflowInitialized, loading, loadStarts>>
    /\ UNCHANGED <<variant, presetsTable, verdict, cliVars, serviceVars>>

\* the process after the module is loaded, before its first request
Init ==
    /\ InitDeployment
    /\ pc = "idle"
    /\ preset = Absent
    /\ customSettings = EmptyObject
    /\ config = NoConfig
    /\ error = "none"
    /\ metadata = [width |-> 0, height |-> 0]
    /\ detections = <<>>
    /\ modelsLoaded = FALSE
    /\ tensorflowInitialized = FALSE
    /\ faceCenter = NoFace
    /\ nominal = NoNominal
    /\ crop = NoCrop
    /\ avgLuminance = 0
    /\ brightnessAdjustment = 0
    /\ stages = <<>>
    /\ thrown = <<>>
    /\ result = NoResult
    /\ detection = "none"
    /\ requests = 0
    /\ loading = NoLoading
    /\ loadStarts = NoLoadStarts

Next ==
    \/ StartRequest
    \/ ResolveConfig
    \/ LoadModels
    \/ DetectFaces
    \/ PlanCrop
    \/ ColorCorrect
    \/ FinalAdjustments

Spec == Init /\ [][Next]_vars

-----------------------------------------------------------------------------
(* image-processor.js: loadModels and initializeTensorFlow entered by several
   requests at once.  Each await is a point where another request can run. *)

\* what a step inside loadModels leaves alone: everything of the request
requestVars ==
    <<pc, preset, customSettings, config, error, metadata, detections, faceCenter,
      nominal, crop, avgLuminance, brightnessAdjustment, stages, thrown, result,
      detection>>

\* a request calls loadModels: it returns at once when modelsLoaded is set;
\* otherwise it calls initializeTensorFlow, which returns at once when
\* tensorflowInitialized is set and otherwise starts tf.setBackend and awaits it
EnterLoadModels(c) ==
    /\ loading[c] = "outside"
    /\ requests' = requests + 1
    /\ IF modelsLoaded
       THEN /\ loading' = [loading EXCEPT ![c] = "returned"]
            /\ loadStarts' = loadStarts
       ELSE IF tensorflowInitialized
            THEN /\ loading' = [loading EXCEPT ![c] = "backendAwaited"]
                 /\ loadStarts' = loadStarts
            ELSE /\ loading' = [loading EXCEPT ![c] = "setBackend"]
                 /\ loadStarts' = [loadStarts EXCEPT !.setBackend = @ + 1]
    /\ UNCHANGED <<requestVars, modelsLoaded, tensorflowInitialized>>
    /\ UNCHANGED <<variant, presetsTable, verdict, cliVars, serviceVars>>

\* await tf.setBackend('wasm'); await tf.ready() settle: the flag is set on
\* success, the error is swallowed on failure
BackendSettles(c) ==
    /\ loading[c] = "setBackend"
    /\ loading' = [loading EXCEPT ![c] = "backendAwaited"]
    /\ \E ok \in BOOLEAN : tensorflowInitialized' = (tensorflowInitialized \/ ok)
    /\ UNCHANGED <<requestVars, modelsLoaded, requests, loadStarts>>
    /\ UNCHANGED <<variant, presetsTable, verdict, cliVars, serviceVars>>

\* loadModels resumes after await initializeTensorFlow() and starts loadFromDisk
StartLoadFromDisk(c) ==
    /\ loading[c] = "backendAwaited"
    /\ loading' = [loading EXCEPT ![c] = "loadFromDisk"]
    /\ loadStarts' = [loadStarts EXCEPT !.loadFromDisk = @ + 1]
    /\ UNCHANGED <<requestVars, modelsLoaded, tensorflowInitialized, requests>>
    /\ UNCHANGED <<variant, presetsTable, verdict, cliVars, serviceVars>>

\* await loadFromDisk settles: modelsLoaded = true on success, the error is
\* swallowed on failure
DiskSettles(c) ==
    /\ loading[c] = "loadFromDisk"
    /\ loading' = [loading EXCEPT ![c] = "returned"]
    /\ \E ok \in BOOLEAN : modelsLoaded' = (modelsLoaded \/ ok)
    /\ UNCHANGED <<requestVars, tensorflowInitialized, requests, loadStarts>>
    /\ UNCHANGED <<variant, presetsTable, verdict, cliVars, serviceVars>>

InitLoad ==
    /\ Init
    /\ \A c \in Callers : loading[c] = "outside"

NextLoad ==
    \E c \in Callers :
      \/ EnterLoadModels(c)
      \/ BackendSettles(c)
      \/ StartLoadFromDisk(c)
      \/ DiskSettles(c)

SpecLoad == InitLoad /\ [][NextLoad]_vars

-----------------------------------------------------------------------------
(* quick-adjust.js: the command line in front of processImageFile *)

\* NaN, held as a number that no option uses
NotANumber == -998

\* the decimal strings of the command lines looked at, in hundredths
NumberTokens == ("1.3" :> 130) @@ ("0.95" :> 95) @@ ("0.5" :> 50)

\* parseFloat(value): a decimal string gives its number; any other string, and
\* undefined, give NaN
parseFloat(value) ==
    IF value \in DOMAIN NumberTokens THEN NumberTokens[value] ELSE NotANumber

\* the body of the switch (flag): a known flag stores its value, any other
\* flag is warned about and stores nothing
Option(opts, flag, value) ==
    IF flag = "--preset" THEN Spread(opts, [preset |-> value])
    ELSE IF flag = "--brightness" THEN Spread(opts, [brightness |-> parseFloat(value)])
    ELSE IF flag = "--saturation" THEN Spread(opts, [saturation |-> parseFloat(value)])
    ELSE IF flag = "--gamma" THEN Spread(opts, [gamma |-> parseFloat(value)])
    ELSE IF flag = "--sharpening" THEN Spread(opts, [sharpening |-> parseFloat(value)])
    ELSE IF flag = "--crop-size" THEN Spread(opts, [cropSize |-> parseFloat(value)])
    ELSE opts

\* for (let i = 2; i < args.length; i += 2): flag = args[i], value = args[i + 1]
\* (undefined past the end); every turn takes two tokens, whatever the flag.
\* Sequences count from 1, so the loop is entered at 3.
RECURSIVE ParseFrom(_, _, _)
ParseFrom(args, i, opts) ==
    IF i > Len(args) THEN opts
    ELSE LET flag == args[i]
             value == IF i + 1 <= Len(args) THEN args[i + 1] ELSE Absent
         IN  ParseFrom(args, i + 2, Option(opts, flag, value))

\* parseArgs: the options of process.argv.slice(2), after the two file names
parseArgs(args) == ParseFrom(args, 3, EmptyObject)

\* buildCustomSettings: one group with one field for every option that is set
buildCustomSettings(opts) ==
    LET group(o, g, f) == IF o \in DOMAIN opts THEN g :> (f :> opts[o]) ELSE EmptyObject
    IN  group("brightness", "brightness", "base")
        @@ group("saturation", "color", "saturation")
        @@ group("gamma", "contrast", "gamma")
        @@ group("sharpening", "sharpening", "sigma")
        @@ group("cropSize", "cropping", "faceDetectedSize")

\* options.preset || 'default'
PresetOption(opts) ==
    IF "preset" \in DOMAIN opts /\ opts["preset"] # Absent THEN opts["preset"]
    ELSE "default"

\* const { inputFile, outputFile, options } = parseArgs()
ParseArgs ==
    /\ pc = "cli"
    /\ pc' = "parsed"
    /\ options' = parseArgs(argv)
    /\ UNCHANGED <<preset, customSettings, config, error, metadata, detections,
                   modelsLoaded, tensorflowInitialized, faceCenter, nominal, crop,
                   avgLuminance, brightnessAdjustment, stages, thrown, result,
                   detection, requests, loading, loadStarts>>
    /\ UNCHANGED <<variant, presetsTable, verdict, argv, serviceVars>>

\* main: the preset and the custom settings handed to processImageFile, which
\* calls preprocessImage with them
Main ==
    /\ pc = "parsed"
    /\ pc' = "start"
    /\ preset' = PresetOption(options)
    /\ customSettings' = buildCustomSettings(options)
    /\ requests' = requests + 1
    /\ UNCHANGED <<config, error, metadata, detections, modelsLoaded,
                   tensorflowInitialized, faceCenter, nominal, crop, avgLuminance,
                   brightnessAdjustment, stages, thrown, result, detection,
                   loading, loadStarts>>
    /\ UNCHANGED <<variant, presetsTable, verdict, cliVars, serviceVars>>

\* most options on one command line
MaxOptions == 3

\* what one option puts on the command line: the flags of the help text with a
\* value, and the two flags of TIGHT-CROP-DETECTION.md
OptionTokens ==
    { <<"--preset", "vibrant">>, <<"--brightness", "1.3">>, <<"--crop-size", "0.5">>,
      <<"--tight-crop-off">>, <<"--loose-crop", "0.95">> }

RECURSIVE OptionLists(_)
OptionLists(n) ==
    IF n = 0 THEN {<<>>}
    ELSE OptionLists(n - 1)
         \cup { l \o o : l \in OptionLists(n - 1), o \in OptionTokens }

\* the command lines: two file names and up to MaxOptions options
ArgLists == { <<"input.jpg", "output.jpg">> \o l : l \in OptionLists(MaxOptions) }

\* node quick-adjust.js <input> <output> [options], on a 1000x1000 photo with
\* one face
InitCli ==
    /\ variant = RootVariant
    /\ presetsTable = presets
    /\ argv \in ArgLists
    /\ options = EmptyObject
    /\ verdict = <<>>
    /\ appModelsLoaded = FALSE
    /\ modelLoadingPromise = "null"
    /\ response = NoResponse
    /\ pc = "cli"
    /\ preset = Absent
    /\ customSettings = EmptyObject
    /\ config = NoConfig
    /\ error = "none"
    /\ metadata = [width |-> 1000, height |-> 1000]
    /\ detections = << [x |-> 400, y |-> 400, width |-> 60, height |-> 60] >>
    /\ modelsLoaded = FALSE
    /\ tensorflowInitialized = FALSE
    /\ faceCenter = NoFace
    /\ nominal = NoNominal
    /\ crop = NoCrop
    /\ avgLuminance = 0
    /\ brightnessAdjustment = 0
    /\ stages = <<>>
    /\ thrown = <<>>
    /\ result = NoResult
    /\ detection = "none"
    /\ requests = 0
    /\ loading = NoLoading
    /\ loadStarts = NoLoadStarts

NextCli ==
    \/ ParseArgs
    \/ Main
    \/ ResolveConfig
    \/ LoadModels
    \/ DetectFaces
    \/ PlanCrop
    \/ ColorCorrect
    \/ FinalAdjustments

SpecCli == InitCli /\ [][NextCli]_vars

-----------------------------------------------------------------------------
(* app.js: the Cloud Run service around functions/image-processor.js.  Its
   own modelsLoaded flag is appModelsLoaded here; modelsLoaded is the flag of
   the image-processor module. *)

\* initializeModels(), called once when the module is loaded: the promise is
\* null, so loadModels is called (caller 1) and runs to its first await;
\* modelLoadingPromise holds the chained promise
InitializeModels ==
    /\ modelLoadingPromise = "null"
    /\ modelLoadingPromise' = "pending"
    /\ loading[1] = "outside"
    /\ IF modelsLoaded
       THEN /\ loading' = [loading EXCEPT ![1] = "returned"]
            /\ loadStarts' = loadStarts
       ELSE IF tensorflowInitialized
            THEN /\ loading' = [loading EXCEPT ![1] = "backendAwaited"]
                 /\ loadStarts' = loadStarts
            ELSE /\ loading' = [loading EXCEPT ![1] = "setBackend"]
                 /\ loadStarts' = [loadStarts EXCEPT !.setBackend = @ + 1]
    /\ UNCHANGED <<requestVars, modelsLoaded, tensorflowInitialized, requests>>
    /\ UNCHANGED <<variant, presetsTable, verdict, cliVars, appModelsLoaded, response>>

\* loadModels() of caller 1 has returned.  It swallows every error of the load,
\* so its promise is fulfilled whatever happened and the .then callback runs:
\* modelsLoaded = true; return true.  The .catch callback needs a rejected
\* promise, which loadModels never returns.
ModelsPromiseSettles ==
    /\ modelLoadingPromise = "pending"
    /\ loading[1] = "returned"
    /\ appModelsLoaded' = TRUE
    /\ modelLoadingPromise' = "fulfilled"
    /\ UNCHANGED <<requestVars, modelsLoaded, tensorflowInitialized, requests,
                   loading, loadStarts>>
    /\ UNCHANGED <<variant, presetsTable, verdict, cliVars, response>>

\* GET /health
GetHealth ==
    /\ modelLoadingPromise # "null"
    /\ response' = [ route |-> "/health", status |-> 200,
                     modelsLoaded |-> appModelsLoaded,
                     availablePresets |-> DOMAIN presetsTable ]
    /\ UNCHANGED <<requestVars, modelsLoaded, tensorflowInitialized, requests,
                   loading, loadStarts>>
    /\ UNCHANGED <<variant, presetsTable, verdict, cliVars, appModelsLoaded,
                   modelLoadingPromise>>

\* GET /presets
GetPresets ==
    /\ modelLoadingPromise # "null"
    /\ response' = [ route |-> "/presets", status |-> 200,
                     modelsLoaded |-> appModelsLoaded,
                     presets |-> DOMAIN presetsTable ]
    /\ UNCHANGED <<requestVars, modelsLoaded, tensorflowInitialized, requests,
                   loading, loadStarts>>
    /\ UNCHANGED <<variant, presetsTable, verdict, cliVars, appModelsLoaded,
                   modelLoadingPromise>>

\* the callers of loadModels other than the start-up call: the smartCropImage
\* of the POST /process and POST /process-url requests
RequestCallers == Callers \ {1}

\* the module app.js evaluated up to its call of initializeModels()
InitApp ==
    /\ variant = FunctionsVariant
    /\ presetsTable = presets
    /\ argv = <<>>
    /\ options = EmptyObject
    /\ verdict = <<>>
    /\ appModelsLoaded = FALSE
    /\ modelLoadingPromise = "null"
    /\ response = NoResponse
    /\ pc = "idle"
    /\ preset = Absent
    /\ customSettings = EmptyObject
    /\ config = NoConfig
    /\ error = "none"
    /\ metadata = [width |-> 0, height |-> 0]
    /\ detections = <<>>
    /\ modelsLoaded = FALSE
    /\ tensorflowInitialized = FALSE
    /\ faceCenter = NoFace
    /\ nominal = NoNominal
    /\ crop = NoCrop
    /\ avgLuminance = 0
    /\ brightnessAdjustment = 0
    /\ stages = <<>>
    /\ thrown = <<>>
    /\ result = NoResult
    /\ detection = "none"
    /\ requests = 0
    /\ loading = NoLoading
    /\ loadStarts = NoLoadStarts

NextApp ==
    \/ InitializeModels
    \/ ModelsPromiseSettles
    \/ GetHealth
    \/ GetPresets
    \/ \E c \in RequestCallers : modelLoadingPromise # "null" /\ EnterLoadModels(c)
    \/ \E c \in Callers :
         \/ BackendSettles(c)
         \/ StartLoadFromDisk(c)
         \/ DiskSettles(c)

SpecApp == InitApp /\ [][NextApp]_vars

-----------------------------------------------------------------------------
(* server.js: the local server around image-processor.js *)

\* if (config): every object, and every function, is truthy
Truthy(value) == TRUE

\* the :name segments asked for: the presets, a name that is no preset, and a
\* name that presets inherits from Object.prototype
RouteNames == RequestedPresets \ {Absent}

\* GET /api/presets/:name
GetPreset(presetName) ==
    /\ response' =
         LET cfg == getConfig(presetName)
         IN  IF Truthy(cfg)
             THEN [ route |-> "/api/presets/:name", name |-> presetName,
                    status |-> 200,
                    body |-> [success |-> TRUE, preset |-> presetName, config |-> cfg] ]
             ELSE [ route |-> "/api/presets/:name", name |-> presetName,
                    status |-> 404,
                    body |-> [error |-> "Preset not found"] ]
    /\ UNCHANGED <<requestVars, modelsLoaded, tensorflowInitialized, requests,
                   loading, loadStarts>>
    /\ UNCHANGED <<variant, presetsTable, verdict, cliVars, appModelsLoaded,
                   modelLoadingPromise>>

\* GET /api/presets
GetPresetList ==
    /\ response' = [ route |-> "/api/presets", status |-> 200,
                     body |-> [success |-> TRUE, presets |-> presetsTable] ]
    /\ UNCHANGED <<requestVars, modelsLoaded, tensorflowInitialized, requests,
                   loading, loadStarts>>
    /\ UNCHANGED <<variant, presetsTable, verdict, cliVars, appModelsLoaded,
                   modelLoadingPromise>>

\* GET /health of server.js
GetServerHealth ==
    /\ response' = [route |-> "/health", status |-> 200, body |-> [status |-> "ok"]]
    /\ UNCHANGED <<requestVars, modelsLoaded, tensorflowInitialized, requests,
                   loading, loadStarts>>
    /\ UNCHANGED <<variant, presetsTable, verdict, cliVars, appModelsLoaded,
                   modelLoadingPromise>>

\* the server listening: the listen callback (caller 1) and the POST /process
\* requests call loadModels, the GET handlers answer in between
NextServer ==
    \/ \E presetName \in RouteNames : GetPreset(presetName)
    \/ GetPresetList
    \/ GetServerHealth
    \/ \E c \in Callers :
         \/ EnterLoadModels(c)
         \/ BackendSettles(c)
         \/ StartLoadFromDisk(c)
         \/ DiskSettles(c)

SpecServer == InitLoad /\ [][NextServer]_vars

-----------------------------------------------------------------------------
(* Claims about the configuration resolver, checked under SpecConfig *)

\* property k of object o exists and holds v
Holds(o, k, v) == k \in DOMAIN o /\ o[k] = v

\* C4: for every published preset name p, mergeConfig(p, {}) equals the stored
\* preset p: the same groups, and in every group, cropping.tightCropDetection
\* included, the same fields with the same values.
C4_EmptyOverrideIsPreset ==
    (pc = "resolved" /\ preset \in PresetNames /\ customSettings = EmptyObject)
    => /\ DOMAIN config = DOMAIN presets[preset]
       /\ \A g \in Groups :
            /\ DOMAIN config[g] = DOMAIN presets[preset][g]
            /\ \A f \in DOMAIN presets[preset][g] :
                 Holds(config[g], f, presets[preset][g][f])
       /\ \A f \in TightFields :
            Holds(config.cropping.tightCropDetection, f,
                  presets[preset].cropping.tightCropDetection[f])

C4_Witness ==
    /\ pc = "resolved" /\ preset = "vibrant" /\ customSettings = EmptyObject
    /\ config.sharpening.sigma = 150
    /\ config.cropping.tightCropDetection.looseCropSize = 95

\* the override names cropping.tightCropDetection
NamesTight(custom) ==
    /\ "cropping" \in DOMAIN custom
    /\ "tightCropDetection" \in DOMAIN custom.cropping

\* C5: when the override names only some fields of cropping.tightCropDetection,
\* the resolved config holds the preset's value in every tightCropDetection
\* field the override does not name and in every other cropping field the
\* override does not name.
C5_TightDeepMerge ==
    (pc = "resolved" /\ preset \in PresetNames /\ NamesTight(customSettings))
    => LET over == customSettings.cropping
           base == presets[preset].cropping
       IN  /\ "tightCropDetection" \in DOMAIN config.cropping
           /\ \A f \in TightFields \ DOMAIN over.tightCropDetection :
                Holds(config.cropping.tightCropDetection, f,
                      base.tightCropDetection[f])
           /\ \A f \in CroppingNumberFields \ DOMAIN over :
                Holds(config.cropping, f, base[f])

\* Scenario D: only looseCropSize is overridden on the default preset
C5_Witness ==
    /\ pc = "resolved" /\ preset = "default"
    /\ customSettings = [cropping |-> [tightCropDetection |-> [looseCropSize |-> 98]]]
    /\ config.cropping.tightCropDetection.looseCropSize = 98
    /\ config.cropping.tightCropDetection.faceToImageRatioThreshold = 3
    /\ config.cropping.tightCropDetection.faceEdgeDistanceThreshold = 20

\* the value g.f resolves to when each property of a group is replaced on its own
OneLevel(custom, base, g, f) ==
    IF g \in DOMAIN custom /\ f \in DOMAIN custom[g] THEN custom[g][f] ELSE base[g][f]

\* C6 as stated: in every group, cropping included, every field f resolves to
\* the override's g.f when the override names it and to the preset's otherwise.
C6_Original ==
    (pc = "resolved" /\ preset \in PresetNames)
    => \A g \in Groups : \A f \in DOMAIN presets[preset][g] :
         Holds(config[g], f, OneLevel(customSettings, presets[preset], g, f))

\* C6 amended: the same for every field except cropping.tightCropDetection,
\* which is merged field by field (C5); and a group the override does not name
\* is the preset's group unchanged.
C6_OneLevelMerge ==
    (pc = "resolved" /\ preset \in PresetNames)
    => /\ \A g \in Groups :
            \A f \in (DOMAIN presets[preset][g]) \ {"tightCropDetection"} :
              Holds(config[g], f, OneLevel(customSettings, presets[preset], g, f))
       /\ \A g \in Groups \ DOMAIN customSettings :
            g \in DOMAIN config /\ config[g] = presets[preset][g]

C6_Witness ==
    /\ pc = "resolved" /\ preset = "brighten"
    /\ customSettings = [brightness |-> [base |-> 98], color |-> [hue |-> 98]]
    /\ config.brightness.base = 98 /\ config.brightness.darkImages = 125
    /\ config.color.hue = 98 /\ config.contrast.gamma = 125

\* C7 as stated: a preset name that is absent or not published resolves like
\* 'default' and raises no error.
C7_UnknownPresetIsDefault ==
    (pc # "start" /\ preset \notin PresetNames)
    => /\ pc = "resolved"
       /\ error = "none"
       /\ config = mergeConfig("default", customSettings)

-----------------------------------------------------------------------------
(* Claims about the crop planner, checked under SpecCrop *)

\* n = Math.floor(num / den), den > 0
IsFloor(n, num, den) == den * n <= num /\ num < den * n + den

\* the face box smartCropImage used
UsedBox == largestFace(detections)

\* The tight-crop verdict as TIGHT-CROP-DETECTION.md states it: enabled, and
\* face area / image area above faceToImageRatioThreshold or the face center
\* closer than faceEdgeDistanceThreshold (as a fraction of the image side) to
\* one of the four edges.
ClaimedVerdict ==
    LET tight == config.cropping.tightCropDetection
        w == metadata.width
        h == metadata.height
        cx2 == 2 * UsedBox.x + UsedBox.width
        cy2 == 2 * UsedBox.y + UsedBox.height
    IN  /\ tight.enabled
        /\ \/ 100 * BoxArea(UsedBox) > tight.faceToImageRatioThreshold * w * h
           \/ 100 * cx2 < tight.faceEdgeDistanceThreshold * 2 * w
           \/ 100 * (2 * w - cx2) < tight.faceEdgeDistanceThreshold * 2 * w
           \/ 100 * cy2 < tight.faceEdgeDistanceThreshold * 2 * h
           \/ 100 * (2 * h - cy2) < tight.faceEdgeDistanceThreshold * 2 * h

\* C1: the region handed to extract lies inside the image on all four sides.
C1_CropWithinImage ==
    pc = "cropped"
    => /\ 0 <= crop.left
       /\ 0 <= crop.top
       /\ crop.left + crop.width <= metadata.width
       /\ crop.top + crop.height <= metadata.height

\* a crop centered on a face near the left edge was moved back to left = 0
C1_Witness ==
    /\ pc = "cropped" /\ faceCenter.present
    /\ nominal.left < 0 /\ crop.left = 0
    /\ crop.width > 0 /\ crop.left + crop.width <= metadata.width

\* C2 as stated: with a face of tight verdict, the nominal side is
\* floor(min(W, H) * looseCropSize), the crop is centered on the face center
\* and faceVerticalOffset is not applied.
C2_TightUsesLooseCrop ==
    (pc = "cropped" /\ faceCenter.present /\ ClaimedVerdict)
    => LET side == nominal.cropWidth
       IN  /\ nominal.cropHeight = side
           /\ IsFloor(side, Min(metadata.width, metadata.height)
                              * config.cropping.tightCropDetection.looseCropSize, 100)
           /\ IsFloor(nominal.left, faceCenter.x2 - side, 2)
           /\ IsFloor(nominal.top, faceCenter.y2 - side, 2)

\* C3 as stated: the planner treats a face as tight exactly when detection is
\* enabled and the ratio or the edge distance crosses its threshold.
C3_VerdictDecidesBranch ==
    (pc = "cropped" /\ faceCenter.present)
    => ((nominal.branch = "looseCropSize") <=> ClaimedVerdict)

C10_FallbackCrop ==
    (pc = "cropped" /\ ~faceCenter.present)
    => LET side == nominal.cropWidth
           c == config.cropping
           w == metadata.width
           h == metadata.height
       IN  /\ nominal.cropHeight = side
           /\ IsFloor(side, Min(w, h) * c.fallbackSize, 100)
           /\ IsFloor(nominal.left, w - side, 2)
           /\ 100 * w > c.landscapeThreshold * h
                => IsFloor(nominal.top, h * c.fallbackLandscapeTop, 100)
           /\ 100 * w <= c.landscapeThreshold * h
                => IsFloor(nominal.top, h * c.fallbackPortraitTop, 100)
           /\ crop.left = Max(0, Min(nominal.left, w - side))
           /\ crop.top = Max(0, Min(nominal.top, h - side))

\* Scenario C: 1600x900 without a face, default preset
C10_Witness ==
    /\ pc = "cropped" /\ ~faceCenter.present
    /\ metadata = [width |-> 1600, height |-> 900]
    /\ customSettings = EmptyObject /\ preset = "default"
    /\ nominal.cropWidth = 720 /\ nominal.left = 440 /\ nominal.top = 225

-----------------------------------------------------------------------------
(* Claims about the luminance buckets, checked under SpecBrightness *)

\* C8: with darkThreshold < mediumThreshold <= brightThreshold the brightness
\* is darkImages at darkThreshold - 1, mediumDarkImages at darkThreshold, base
\* at mediumThreshold and at brightThreshold, brightImages at brightThreshold + 1.
C8_BucketBoundaries ==
    LET b == config.brightness
    IN  (/\ pc = "colorCorrected"
         /\ b.darkThreshold < b.mediumThreshold
         /\ b.mediumThreshold <= b.brightThreshold)
        => /\ avgLuminance = b.darkThreshold - 1
                => brightnessAdjustment = b.darkImages
           /\ avgLuminance = b.darkThreshold
                => brightnessAdjustment = b.mediumDarkImages
           /\ avgLuminance = b.mediumThreshold => brightnessAdjustment = b.base
           /\ avgLuminance = b.brightThreshold => brightnessAdjustment = b.base
           /\ avgLuminance = b.brightThreshold + 1
                => brightnessAdjustment = b.brightImages

\* the default thresholds, luminance exactly darkThreshold
C8_Witness ==
    /\ pc = "colorCorrected" /\ preset = "default" /\ customSettings = EmptyObject
    /\ avgLuminance = 100 /\ brightnessAdjustment = 112

-----------------------------------------------------------------------------
(* Claims about the crop stage's edge cases, checked under SpecCrop *)

\* C11: for every image with positive width and height, the 1x1 image
\* included, and every resolved config, the region the planner hands to the
\* extraction has width > 0 and height > 0
C11_CropNotEmpty ==
    (nominal.branch # "none" /\ metadata.width > 0 /\ metadata.height > 0)
        => crop.width > 0 /\ crop.height > 0

-----------------------------------------------------------------------------
(* Claims about the orchestration of a request, checked under Spec *)

\* the stage whose buffer a stage takes as its input
PreviousStage ==
    [ smartCropImage         |-> "mergeConfig",
      colorCorrectForAvatars |-> "smartCropImage",
      finalAdjustments       |-> "colorCorrectForAvatars" ]

\* the stage log of a request that returned its image
SuccessfulRun ==
    << Event("mergeConfig", "done"),
       Event("smartCropImage", "start"), Event("smartCropImage", "done"),
       Event("colorCorrectForAvatars", "start"), Event("colorCorrectForAvatars", "done"),
       Event("finalAdjustments", "start"), Event("finalAdjustments", "done") >>

\* C12: a stage starts only right after the previous stage (config resolution
\* for the crop stage) has returned its output, no stage event happens twice,
\* and a request that returns its image has run config resolution, crop,
\* color-correct and final-adjust exactly once each, in that order
C12_StagesInOrder ==
    /\ \A i \in 1..Len(stages) :
         stages[i].event = "start"
           => i > 1 /\ stages[i - 1] = Event(PreviousStage[stages[i].stage], "done")
    /\ \A i \in 1..Len(stages), j \in 1..Len(stages) :
         stages[i] = stages[j] => i = j
    /\ (pc = "done") <=> (result = "png")
    /\ pc = "done" => stages = SuccessfulRun

\* a request with a detected face has returned its image
C12_Witness ==
    pc = "done" /\ result = "png" /\ detection = "face" /\ stages = SuccessfulRun

\* C13: when a stage (or config resolution) throws, that is the last stage
\* event of the request: no later stage runs and the stage is not run again;
\* the caller receives exactly one error and no image; a request that has not
\* failed has thrown nothing
C13_FailureStopsRequest ==
    /\ \A i \in 1..Len(stages) :
         stages[i].event = "threw"
           => /\ i = Len(stages)
              /\ pc = "failed"
              /\ Len(thrown) = 1
              /\ result = NoResult
    /\ pc = "failed"
         => Len(stages) > 0 /\ stages[Len(stages)].event = "threw" /\ Len(thrown) = 1
    /\ pc # "failed" => thrown = <<>>

\* the color-correct stage of a request has thrown
C13_Witness ==
    /\ pc = "failed"
    /\ stages = << Event("mergeConfig", "done"),
                   Event("smartCropImage", "start"), Event("smartCropImage", "done"),
                   Event("colorCorrectForAvatars", "start"),
                   Event("colorCorrectForAvatars", "threw") >>
    /\ Len(thrown) = 1

\* face detection gave no face to the planner: the models are not loaded, the
\* detector threw, or it returned no box
DetectionUnavailable == detection \in {"notLoaded", "threw", "noFaces"}

\* C14: when face detection is unavailable, nothing is thrown because of it:
\* faceCenter stays null, the request is not failed when detection ends, the
\* planner takes the no-face branch, a crop stage that returned is followed by
\* color-correct, and an error the request throws afterwards is the rejection
\* of a sharp chain
C14_DetectionFailureRecovered ==
    DetectionUnavailable
      => /\ faceCenter = NoFace
         /\ pc = "detected" => error = "none" /\ thrown = <<>>
         /\ nominal.branch \in {"none", "fallbackSize"}
         /\ pc \in {"cropped", "colorCorrected", "done"}
              => /\ Event("smartCropImage", "done") \in { stages[i] : i \in 1..Len(stages) }
                 /\ nominal.branch = "fallbackSize"
                 /\ nominal.top = FallbackTop(metadata.width, metadata.height,
                                              config.cropping)
         /\ pc = "failed" => thrown[1] \in SharpErrors

\* the detector threw on an image with a face and the request has reached the
\* end of color-correct
C14_Witness ==
    /\ detection = "threw"
    /\ Len(detections) > 0
    /\ pc = "colorCorrected"
    /\ nominal.branch = "fallbackSize"

-----------------------------------------------------------------------------
(* Claim about concurrent first use of the models, checked under SpecLoad *)

\* the callers that are awaiting the promise of one call
Awaiting(call) == { c \in Callers : loading[c] = call }

\* C15: whatever the interleaving of the requests that arrive before the
\* models are loaded, the model load is started at most once: never are two
\* calls of loadFromDisk, or two calls of tf.setBackend, in progress together
C15_LoadStartedOnce ==
    /\ Cardinality(Awaiting("loadFromDisk")) <= 1
    /\ Cardinality(Awaiting("setBackend")) <= 1

-----------------------------------------------------------------------------
(* Claim about the choice among several faces, checked under SpecCrop *)

\* the positions of the boxes of maximal area
LargestAt(dets) ==
    { i \in 1..Len(dets) : \A j \in 1..Len(dets) : BoxArea(dets[j]) <= BoxArea(dets[i]) }

FirstLargest(dets) ==
    dets[CHOOSE i \in LargestAt(dets) : \A j \in LargestAt(dets) : i <= j]

LastLargest(dets) ==
    dets[CHOOSE i \in LargestAt(dets) : \A j \in LargestAt(dets) : j <= i]

\* C16 as stated: the face the crop is centered on is the box of maximal area
\* that comes first in the detection list
C16_Original ==
    detection = "face" => faceCenter = FaceCenterOf(FirstLargest(detections))

\* C16: the face the crop is centered on is the box of maximal area that
\* comes last in the detection list
C16_LastLargestBoxUsed ==
    detection = "face" => faceCenter = FaceCenterOf(LastLargest(detections))

\* three boxes were detected, the first and the last tie for the largest area
\* and have different centers, and the last one is used
C16_Witness ==
    /\ detection = "face"
    /\ Len(detections) = 3
    /\ {1, 3} \subseteq LargestAt(detections)
    /\ FaceCenterOf(detections[1]) # FaceCenterOf(detections[3])
    /\ faceCenter = FaceCenterOf(detections[3])

-----------------------------------------------------------------------------
(* Claim about unknown override fields, checked under SpecConfig *)

\* the top-level fields of an override that name no group
UnknownFields(custom) == (DOMAIN custom) \ Groups

\* the override without its unknown top-level fields
KnownPart(custom) == [g \in (DOMAIN custom) \cap Groups |-> custom[g]]

-----------------------------------------------------------------------------
(* Claims about the validation of a request's inputs and the error it
   surfaces, checked under Spec *)

\* o.k reads as undefined: the property is absent or holds undefined
Missing(o, k) == k \notin DOMAIN o \/ o[k] = Undefined

\* the number fields of a group of the configuration
NumberFields(g) == (DOMAIN processingConfig[g]) \ {"tightCropDetection"}

\* some number field of some group reads as undefined in c
Incomplete(c) ==
    \E g \in Groups :
      g \notin DOMAIN c \/ \E f \in NumberFields(g) : Missing(c[g], f)

\* the stage log holds nothing but config resolution
NoStageStarted == \A i \in 1..Len(stages) : stages[i].stage = "mergeConfig"

\* C18: when a required field has no value after the merge, resolution fails
\* with ConfigIncomplete before any stage starts; no stage is handed the
\* incomplete config
C18_IncompleteConfigRejected ==
    ( /\ pc \notin {"idle", "start"}
      /\ ~mergeConfigThrows(preset, customSettings)
      /\ Incomplete(mergeConfig(preset, customSettings)) )
      => /\ pc = "failed"
         /\ error = "ConfigIncomplete"
         /\ NoStageStarted

\* the metadata reports a width or a height that is not positive
InvalidMetadata == metadata.width <= 0 \/ metadata.height <= 0

\* C19: when the metadata reports a non-positive width or height, the request
\* is aborted at once with InvalidImageMetadata: no face detection, no crop
\* computation and no transform stage is performed for it
C19_InvalidMetadataRejected ==
    ( /\ pc \notin {"idle", "start"}
      /\ ~mergeConfigThrows(preset, customSettings)
      /\ InvalidMetadata )
      => /\ pc = "failed"
         /\ error = "InvalidImageMetadata"
         /\ detection = "none"
         /\ nominal = NoNominal
         /\ NoStageStarted

TransformStages == {"smartCropImage", "colorCorrectForAvatars", "finalAdjustments"}

\* C20: when a transform stage (crop, color-correct or final-adjust) throws,
\* the one error the caller receives names the stage that failed
C20_ErrorNamesStage ==
    \A i \in 1..Len(stages) :
      (stages[i].event = "threw" /\ stages[i].stage \in TransformStages)
        => Len(thrown) = 1 /\ Holds(thrown[1], "stage", stages[i].stage)

-----------------------------------------------------------------------------
(* Claim about the brightness of the deployment variants, checked under
   SpecVariants *)

\* C21: in the root module and in the functions modules alike, the brightness
\* handed to modulate in the color-correct stage is the multiplier the bucket
\* chain selects for the average luminance of the cropped image
C21_BucketBrightnessEverywhere ==
    pc = "colorCorrected"
      => brightnessAdjustment = BrightnessAdjustment(avgLuminance, config.brightness)

-----------------------------------------------------------------------------
(* Claim about thresholds in any order, checked under SpecBrightness *)

\* C22: for every brightness config, thresholds out of order included, the
\* brightness is darkImages when avg < darkThreshold; otherwise
\* mediumDarkImages when avg < mediumThreshold; otherwise brightImages when
\* avg > brightThreshold; otherwise base
C22_FirstMatchingCheckWins ==
    LET b == config.brightness
        dark   == avgLuminance < b.darkThreshold
        medium == avgLuminance < b.mediumThreshold
        bright == avgLuminance > b.brightThreshold
    IN  pc = "colorCorrected"
          => /\ dark => brightnessAdjustment = b.darkImages
             /\ (~dark /\ medium) => brightnessAdjustment = b.mediumDarkImages
             /\ (~dark /\ ~medium /\ bright) => brightnessAdjustment = b.brightImages
             /\ (~dark /\ ~medium /\ ~bright) => brightnessAdjustment = b.base

\* thresholds out of order (brightThreshold < mediumThreshold < darkThreshold)
\* and a luminance that passes all three checks: darkImages is used
C22_Witness ==
    LET b == config.brightness
    IN  /\ pc = "colorCorrected"
        /\ b.brightThreshold < b.mediumThreshold
        /\ b.mediumThreshold < b.darkThreshold
        /\ avgLuminance > b.brightThreshold
        /\ avgLuminance < b.mediumThreshold
        /\ brightnessAdjustment = b.darkImages
        /\ b.darkImages # b.brightImages

-----------------------------------------------------------------------------
(* Claim about the tight-crop verdict, checked under SpecVerdict *)

\* two verdicts of one request were taken at the same edge distances
SameEdgeDistances(a, b) ==
    a.left = b.left /\ a.right = b.right /\ a.top = b.top /\ a.bottom = b.bottom

\* faceRatio of a <= faceRatio of b
RatioAtMost(a, b) == a.faceRatio.num * b.faceRatio.den <= b.faceRatio.num * a.faceRatio.den

\* C23: with the thresholds, the enabled flag and the edge distances fixed, a
\* face that is tight at ratio r is tight at every ratio r' >= r
C23_VerdictMonotonic ==
    \A i \in 1..Len(verdict), j \in 1..Len(verdict) :
      (SameEdgeDistances(verdict[i], verdict[j]) /\ RatioAtMost(verdict[i], verdict[j])
         /\ verdict[i].isTight)
        => verdict[j].isTight

\* two concentric faces of different ratio, the smaller one not tight, the
\* larger one tight
C23_Witness ==
    /\ pc = "analyzed"
    /\ Len(verdict) = 2
    /\ SameEdgeDistances(verdict[1], verdict[2])
    /\ RatioAtMost(verdict[1], verdict[2])
    /\ ~RatioAtMost(verdict[2], verdict[1])
    /\ ~verdict[1].isTight
    /\ verdict[2].isTight

-----------------------------------------------------------------------------
(* Claim about the purity of mergeConfig, checked under Spec *)

\* the base a resolution reads in a process that has resolved nothing yet
FreshBase(basePreset) ==
    LET name == PresetArg(basePreset)
    IN  IF name \in PresetNames THEN presets[name]
        ELSE IF name \in ObjectPrototypeNames THEN EmptyObject
        ELSE presets["default"]

\* what mergeConfig returns in a process that has resolved nothing yet
FreshConfig(basePreset, custom) ==
    LET base == FreshBase(basePreset)
    IN  Spread(Spread(base, custom),
               [ g \in Groups |-> IF g = "cropping" THEN MergeCropping(base, custom)
                                  ELSE MergeGroup(base, custom, g) ])

-----------------------------------------------------------------------------
(* Claims about the command line, checked under SpecCli *)

\* flag f stands on the command line
HasFlag(f) == \E i \in 3..Len(argv) : argv[i] = f

\* cropping.tightCropDetection of the custom settings
TightCropOf(custom) == Prop(Prop(custom, "cropping"), "tightCropDetection")

\* the command line without --tight-crop-off and without --loose-crop <value>
RECURSIVE PlainArgs(_)
PlainArgs(args) ==
    IF args = <<>> THEN <<>>
    ELSE IF Head(args) = "--tight-crop-off" THEN PlainArgs(Tail(args))
    ELSE IF Head(args) = "--loose-crop"
         THEN PlainArgs(IF Len(args) > 1 THEN Tail(Tail(args)) ELSE <<>>)
    ELSE <<Head(args)>> \o PlainArgs(Tail(args))

\* C25: --tight-crop-off gives the custom settings
\* cropping.tightCropDetection.enabled = false, --loose-crop v gives them
\* looseCropSize = v, and the preset and the other settings are those of the
\* same command line without the two flags.
C25_TightCropFlags ==
    pc \notin {"cli", "parsed"} =>
      LET plain == parseArgs(PlainArgs(argv))
      IN  /\ HasFlag("--tight-crop-off")
               => Holds(TightCropOf(customSettings), "enabled", FALSE)
          /\ \A i \in 3..(Len(argv) - 1) :
               argv[i] = "--loose-crop"
                 => Holds(TightCropOf(customSettings), "looseCropSize",
                          parseFloat(argv[i + 1]))
          /\ preset = PresetOption(plain)
          /\ \A g \in {"brightness", "color", "contrast", "sharpening"} :
               Prop(customSettings, g) = Prop(buildCustomSettings(plain), g)
          /\ \A f \in DOMAIN Prop(buildCustomSettings(plain), "cropping") :
               Holds(Prop(customSettings, "cropping"), f,
                     buildCustomSettings(plain)["cropping"][f])

\* C26: with --brightness b read by parseArgs, the brightness multiplier that
\* color-correct applies is b for every image, the dark ones included.
C26_BrightnessFlagApplied ==
    (pc = "colorCorrected" /\ "brightness" \in DOMAIN options)
      => brightnessAdjustment = options["brightness"]

-----------------------------------------------------------------------------
(* Claims about the crop size, checked under SpecCrop *)

\* the size factor of the branch taken
AppliedFactor == config.cropping[nominal.branch]

\* the clamp moved the crop: it did not start where the planner put it
ClampShifted == crop.left # nominal.left \/ crop.top # nominal.top

\* C27: when the size factor applied is in (0, 1] and the nominal side
\* floor(min(W, H) * factor) is at least 1, the crop returned is a square of
\* exactly the nominal side, wherever the face is.
C27_ClampShiftsNeverShrinks ==
    ( /\ pc = "cropped"
      /\ AppliedFactor > 0
      /\ AppliedFactor <= 100
      /\ (Min(metadata.width, metadata.height) * AppliedFactor) \div 100 >= 1 )
      => /\ crop.width = (Min(metadata.width, metadata.height) * AppliedFactor) \div 100
         /\ crop.height = crop.width

\* a face whose centred crop would leave the image: the crop is moved and keeps
\* its side
C27_Witness ==
    /\ pc = "cropped"
    /\ faceCenter.present
    /\ AppliedFactor > 0
    /\ AppliedFactor <= 100
    /\ nominal.cropWidth >= 2
    /\ nominal.left + nominal.cropWidth > metadata.width
    /\ ClampShifted
    /\ crop.width = nominal.cropWidth
    /\ crop.height = nominal.cropHeight

-----------------------------------------------------------------------------
(* Claims about model loading over the requests of one process, checked under
   Spec *)

\* C28: a request that finds the models not loaded attempts the load, and a
\* failed load throws nothing: the request goes on to its crop stage, which is
\* planned with the no-face fallback while modelsLoaded is false.  Once
\* modelsLoaded is true it stays true and no later step starts another load.
C28_LoadRetriedUntilLoaded ==
    [][ /\ modelsLoaded => (modelsLoaded' /\ loadStarts' = loadStarts)
        /\ (pc = "resolved" /\ ~modelsLoaded)
             => /\ loadStarts'.loadFromDisk = loadStarts.loadFromDisk + 1
                /\ pc' = "loaded"
                /\ thrown' = thrown
        /\ (pc = "detected" /\ ~modelsLoaded)
             => /\ ~faceCenter.present
                /\ nominal'.branch = "fallbackSize"
                /\ crop' = ExtractRegion(
                             NominalCrop(NoFace, metadata, config.cropping), metadata)
      ]_vars

\* the second request of a process whose first load failed has loaded the
\* models with a second load and has cropped
C28_Witness ==
    /\ requests = 2
    /\ loadStarts.loadFromDisk = 2
    /\ modelsLoaded
    /\ pc = "cropped"

-----------------------------------------------------------------------------
(* Claims about the HTTP services, checked under SpecApp and SpecServer *)

\* C29: the modelsLoaded that GET /health and GET /presets of app.js report is
\* true only if loadModels has loaded the models; after a failed load it is
\* false.
C29_ReportedFlagIsTruthful ==
    /\ appModelsLoaded => modelsLoaded
    /\ Holds(response, "modelsLoaded", TRUE) => modelsLoaded

\* C30: GET /api/presets/:name of server.js answers 404 'Preset not found'
\* when :name is not one of the presets, and success with the configuration of
\* that preset when it is.
C30_UnknownPresetIs404 ==
    Holds(response, "route", "/api/presets/:name") =>
      IF response.name \in PresetNames
      THEN /\ response.status = 200
           /\ response.body = [ success |-> TRUE, preset |-> response.name,
                                config |-> presets[response.name] ]
      ELSE /\ response.status = 404
           /\ response.body = [error |-> "Preset not found"]

====
